---- MODULE Spec2Model ----
(***************************************************************************)
(* Model of hebel's progress monitors (src/hebel/monitors.py) and of the   *)
(* elementwise GPU kernel wrappers                                         *)
(* (src/neural_nets/pycuda_ops/elementwise.py).                            *)
(*                                                                         *)
(* Python values are encoded as tagged tuples so that values of different  *)
(* Python types are comparable and unequal:                                *)
(*   None -> <<"None">>, a float n/d -> <<"float", n, d>> (lowest terms),  *)
(*   a 2-tuple (a, b) -> <<"tuple", a, b>>.  Epochs are integers.          *)
(***************************************************************************)
EXTENDS Integers, Sequences, FiniteSets, TLC

VARIABLES
    \* ---- ProgressMonitor (monitors.py:28-148) ----
    constructed,       \* __init__ has run
    experiment_name,   \* self.experiment_name
    save_interval,     \* self.save_interval
    output_to_log,     \* self.output_to_log
    train_error,       \* self.train_error
    validation_error,  \* self.validation_error
    avg_epoch_t,       \* self.avg_epoch_t
    start_time,        \* TRUE once self.start_time exists
    log,               \* self.log: "absent", "open" or "closed"
    sys_stdout,        \* what sys.stdout refers to
    sys_stderr,        \* what sys.stderr refers to
    files,             \* names of the files written into self.save_path
    printed,           \* number of lines print_error has printed
    raised,            \* exception the last ProgressMonitor call raised, or "none"
    \* ---- SimpleProgressMonitor (monitors.py:151-202) ----
    s_train_error,
    s_validation_error,
    s_avg_epoch_t,
    s_start_time,
    s_printed,
    s_raised,
    \* ---- the calls made so far ----
    calls,             \* sequence of report argument lists <<epoch, te, ve, et>>
    lastOp,            \* name of the last monitor method called
    finished,          \* TRUE once a finish_training call has returned normally
    \* ---- elementwise.py ----
    x,                 \* the GPU array passed in: [dtype, data]
    buf,               \* the separate array the caller holds ready as a target
                       \* for the call: [dtype, data]
    fresh,             \* the array the last call allocated, if any: [dtype, data]
    ret,               \* what the last call returned: "None", "fresh", "x" or "buf"
    kernel,            \* name of the kernel the last call launched, or "none"
    k_raised,          \* exception the last elementwise call raised, or "none"
    k_op,              \* name of the last elementwise call
    x_before           \* contents of x when the last call was made

monVars == <<constructed, experiment_name, save_interval, output_to_log,
             train_error, validation_error, avg_epoch_t, start_time, log,
             sys_stdout, sys_stderr, files, printed, raised>>
simpleVars == <<s_train_error, s_validation_error, s_avg_epoch_t,
                s_start_time, s_printed, s_raised>>
callVars == <<calls, lastOp, finished>>
kernelVars == <<x, buf, fresh, ret, kernel, k_op, k_raised, x_before>>
vars == <<monVars, simpleVars, callVars, kernelVars>>

\* ------------------------------------------------------------------------
\* Bounds of the model
\* ------------------------------------------------------------------------
MaxCalls == 2      \* report calls per run
MaxEpoch == 3      \* epochs are drawn from 0..MaxEpoch
MaxInterval == 2   \* save_interval is drawn from 0..MaxInterval
MaxN == 2          \* GPU arrays hold 0..MaxN elements
MaxCompose == 1    \* sigmoid/tanh applications kept per array element
MaxSeed == 15      \* dropout seeds are drawn from 0..MaxSeed
NumThreads == 1    \* total_threads of a kernel launch
WordRange == 4     \* the random words a, b, c, d range over 0..WordRange-1

\* ------------------------------------------------------------------------
\* Python values
\* ------------------------------------------------------------------------
PyNone == <<"None">>

RECURSIVE GCD(_, _)
GCD(a, b) == IF b = 0 THEN a ELSE GCD(b, a % b)

Abs(n) == IF n < 0 THEN -n ELSE n

\* the float n/d, d > 0, in lowest terms
PyFloat(n, d) ==
    LET g == GCD(Abs(n), d)
    IN  <<"float", n \div g, d \div g>>

PyTuple(a, b) == <<"tuple", a, b>>

IsNone(v) == v = PyNone

Epochs == 0..MaxEpoch
TrainErrors == {PyFloat(1, 2)}
ValidationErrors == {PyNone, PyFloat(1, 4)}
EpochTimes == {PyNone, PyFloat(1, 1), PyFloat(2, 1)}
Names == {"exp"}

\* ------------------------------------------------------------------------
\* String formatting
\* ------------------------------------------------------------------------
RECURSIVE Digits(_)
\* decimal digits of n >= 0, most significant first
Digits(n) == IF n < 10 THEN <<n>> ELSE Append(Digits(n \div 10), n % 10)

RECURSIVE ZeroPad(_, _)
ZeroPad(ds, width) == IF Len(ds) >= width THEN ds ELSE ZeroPad(<<0>> \o ds, width)

\* '%04d' % epoch for epoch >= 0
Fmt04d(epoch) == ZeroPad(Digits(epoch), 4)

\* 'model_%s_epoch%04d.pkl' % (experiment_name, epoch)
EpochFile(name, epoch) == <<"model_", name, "_epoch", Fmt04d(epoch), ".pkl">>

\* 'model_%s_final.pkl' % experiment_name
FinalFile(name) == <<"model_", name, "_final.pkl">>

\* ------------------------------------------------------------------------
\* ProgressMonitor
\* ------------------------------------------------------------------------

\* makedir, lines 83-86: where a standard stream points after construction
makedir_stream(to_log, cur) == IF to_log THEN "log" ELSE cur

\* makedir, line 84: the log file after construction
makedir_log(to_log) == IF to_log THEN "open" ELSE "absent"

\* __init__ (which ends by calling makedir) with an experiment name and a
\* save path
PM_init(name, interval, to_log) ==
    /\ ~constructed
    /\ constructed' = TRUE
    /\ experiment_name' = name
    /\ save_interval' = interval
    /\ output_to_log' = to_log
    /\ train_error' = <<>>
    /\ validation_error' = <<>>
    /\ avg_epoch_t' = PyNone
    /\ log' = makedir_log(to_log)
    /\ sys_stdout' = makedir_stream(to_log, sys_stdout)
    /\ sys_stderr' = makedir_stream(to_log, sys_stderr)
    /\ raised' = "none"
    /\ UNCHANGED <<start_time, files, printed>>

PM_start_training ==
    /\ constructed
    /\ start_time' = TRUE
    /\ raised' = "none"
    /\ UNCHANGED <<constructed, experiment_name, save_interval, output_to_log,
                   train_error, validation_error, avg_epoch_t, log,
                   sys_stdout, sys_stderr, files, printed>>

\* a variant that appends whatever was passed, None included
PM_append_validation_mut(errs, epoch, ve) == Append(errs, ve)

\* report, lines 94-95
PM_append_validation(errs, epoch, ve) ==
    IF ~IsNone(ve) THEN Append(errs, ve) ELSE errs

\* report, lines 98-101: TRUE when the update divides by zero
avg_raises(avg, epoch, et) == ~IsNone(et) /\ ~IsNone(avg) /\ epoch = 0

\* a variant that weights the old average by epoch instead of epoch - 1
update_avg_mut(avg, epoch, et) ==
    IF ~IsNone(et)
    THEN IF ~IsNone(avg)
         THEN PyFloat(epoch * avg[2] * et[3] + et[2] * avg[3],
                      avg[3] * et[3] * epoch)
         ELSE et
    ELSE avg

\* report, lines 98-101: the new avg_epoch_t (exact arithmetic)
update_avg(avg, epoch, et) ==
    IF ~IsNone(et)
    THEN IF ~IsNone(avg)
         THEN \* ((epoch - 1) * avg + epoch_t) / epoch
              PyFloat((epoch - 1) * avg[2] * et[3] + et[2] * avg[3],
                      avg[3] * et[3] * epoch)
         ELSE et
    ELSE avg

\* report, lines 104-109: the files after the pickling step
pickle_epoch(fs, name, interval, epoch) ==
    IF epoch % interval = 0 THEN fs \cup {EpochFile(name, epoch)} ELSE fs

PM_report(epoch, te, ve, et) ==
    /\ constructed
    /\ train_error' = Append(train_error, PyTuple(epoch, te))
    /\ validation_error' = PM_append_validation(validation_error, epoch, ve)
    /\ printed' = printed + 1
    /\ IF avg_raises(avg_epoch_t, epoch, et)
       THEN /\ raised' = "ZeroDivisionError"
            /\ UNCHANGED <<avg_epoch_t, files>>
       ELSE /\ avg_epoch_t' = update_avg(avg_epoch_t, epoch, et)
            /\ IF save_interval = 0
               THEN /\ raised' = "ZeroDivisionError"
                    /\ UNCHANGED files
               ELSE /\ raised' = "none"
                    /\ files' = pickle_epoch(files, experiment_name,
                                             save_interval, epoch)
    /\ UNCHANGED <<constructed, experiment_name, save_interval, output_to_log,
                   start_time, log, sys_stdout, sys_stderr>>

\* a variant that leaves the stream where it points
restore_stream_mut(to_log, cur) == cur

\* finish_training, lines 145-148: a standard stream after a normal return
restore_stream(to_log, cur) == IF to_log THEN "__std__" ELSE cur

\* finish_training, lines 145-146: the log file after a normal return
close_log(to_log, cur) == IF to_log THEN "closed" ELSE cur

PM_finish_training ==
    /\ constructed
    /\ IF ~start_time
       THEN \* line 134: self.start_time does not exist
            /\ raised' = "AttributeError"
            /\ UNCHANGED <<files, log, sys_stdout, sys_stderr>>
       ELSE IF IsNone(avg_epoch_t)
       THEN \* line 137: "%.2fs" % None
            /\ raised' = "TypeError"
            /\ UNCHANGED <<files, log, sys_stdout, sys_stderr>>
       ELSE /\ raised' = "none"
            /\ files' = files \cup {FinalFile(experiment_name)}
            /\ log' = close_log(output_to_log, log)
            /\ sys_stdout' = restore_stream(output_to_log, sys_stdout)
            /\ sys_stderr' = restore_stream(output_to_log, sys_stderr)
    /\ UNCHANGED <<constructed, experiment_name, save_interval, output_to_log,
                   train_error, validation_error, avg_epoch_t, start_time,
                   printed>>

\* ------------------------------------------------------------------------
\* SimpleProgressMonitor
\* ------------------------------------------------------------------------
SPM_init ==
    /\ s_train_error' = <<>>
    /\ s_validation_error' = <<>>
    /\ s_avg_epoch_t' = PyNone
    /\ s_raised' = "none"
    /\ UNCHANGED <<s_start_time, s_printed>>

SPM_start_training ==
    /\ s_start_time' = TRUE
    /\ s_raised' = "none"
    /\ UNCHANGED <<s_train_error, s_validation_error, s_avg_epoch_t, s_printed>>

\* report, lines 165-166
SPM_append_validation(errs, epoch, ve) ==
    IF ~IsNone(ve) THEN Append(errs, PyTuple(epoch, ve)) ELSE errs

SPM_report(epoch, te, ve, et) ==
    /\ s_train_error' = Append(s_train_error, PyTuple(epoch, te))
    /\ s_validation_error' = SPM_append_validation(s_validation_error, epoch, ve)
    /\ s_printed' = s_printed + 1
    /\ IF avg_raises(s_avg_epoch_t, epoch, et)
       THEN /\ s_raised' = "ZeroDivisionError"
            /\ UNCHANGED s_avg_epoch_t
       ELSE /\ s_raised' = "none"
            /\ s_avg_epoch_t' = update_avg(s_avg_epoch_t, epoch, et)
    /\ UNCHANGED s_start_time

SPM_finish_training ==
    /\ s_raised' = IF ~s_start_time THEN "AttributeError"
                   ELSE IF IsNone(s_avg_epoch_t) THEN "TypeError"
                   ELSE "none"
    /\ UNCHANGED <<s_train_error, s_validation_error, s_avg_epoch_t,
                   s_start_time, s_printed>>

\* ------------------------------------------------------------------------
\* The training loop drives both monitors with the same calls
\* ------------------------------------------------------------------------
\* what sys.stdout and sys.stderr refer to when the monitor is constructed:
\* the interpreter's own streams, or streams the caller has installed
StartStreams == {<<"__std__", "__std__">>, <<"caller_out", "caller_err">>}

MonInit ==
    /\ constructed = FALSE
    /\ experiment_name = "exp"
    /\ save_interval = 0
    /\ output_to_log = FALSE
    /\ train_error = <<>>
    /\ validation_error = <<>>
    /\ avg_epoch_t = PyNone
    /\ start_time = FALSE
    /\ log = "absent"
    /\ \E ss \in StartStreams : sys_stdout = ss[1] /\ sys_stderr = ss[2]
    /\ files = {}
    /\ printed = 0
    /\ raised = "none"
    /\ s_train_error = <<>>
    /\ s_validation_error = <<>>
    /\ s_avg_epoch_t = PyNone
    /\ s_start_time = FALSE
    /\ s_printed = 0
    /\ s_raised = "none"
    /\ calls = <<>>
    /\ lastOp = "none"
    /\ finished = FALSE

Construct ==
    /\ \E name \in Names, interval \in 0..MaxInterval, to_log \in BOOLEAN :
           PM_init(name, interval, to_log)
    /\ SPM_init
    /\ lastOp' = "__init__"
    /\ UNCHANGED <<calls, finished, kernelVars>>

StartTraining ==
    /\ PM_start_training
    /\ SPM_start_training
    /\ lastOp' = "start_training"
    /\ UNCHANGED <<calls, finished, kernelVars>>

Report ==
    /\ Len(calls) < MaxCalls
    /\ \E epoch \in Epochs, te \in TrainErrors, ve \in ValidationErrors,
          et \in EpochTimes :
           /\ PM_report(epoch, te, ve, et)
           /\ SPM_report(epoch, te, ve, et)
           /\ calls' = Append(calls, <<epoch, te, ve, et>>)
    /\ lastOp' = "report"
    /\ UNCHANGED <<finished, kernelVars>>

FinishTraining ==
    /\ PM_finish_training
    /\ SPM_finish_training
    /\ lastOp' = "finish_training"
    /\ finished' = (finished \/ raised' = "none")
    /\ UNCHANGED <<calls, kernelVars>>

\* ------------------------------------------------------------------------
\* GPU arrays (elementwise.py)
\*
\* An array element is [nan, q, fn]: NaN, or the number q / WordRange to
\* which the functions named in fn (innermost first) have been applied.
\* sigmoid and tanh are kept symbolic; only their sign is used.
\* ------------------------------------------------------------------------
F(q) == [nan |-> FALSE, q |-> q, fn |-> <<>>]
NaN == [nan |-> TRUE, q |-> 0, fn |-> <<>>]
Zero == F(0)
One == F(WordRange)
\* the content of memory nobody has written yet
Uninit == [nan |-> FALSE, q |-> 0, fn |-> <<"uninitialised">>]

Dtypes == {"float32", "float64", "float16", "int32"}
Values == {NaN, F(-WordRange), Zero, F(2 * WordRange)}

\* gpuarray.GPUArray(shape, dtype) / gpuarray.empty_like
Empty(dtype, n) == [dtype |-> dtype, data |-> [i \in 1..n |-> Uninit]]

\* the last call allocated nothing
NoArray == [dtype |-> "float32", data |-> <<>>]

\* the caller's target array before a call: of the shape of x, not written
Target == Empty("float32", Len(x.data))

RECURSIVE Sgn(_, _)
\* sign of the number an element denotes (0 for NaN: every comparison fails)
Sgn(e, k) ==
    IF e.nan THEN 0
    ELSE IF k = 0 THEN (IF e.q > 0 THEN 1 ELSE IF e.q < 0 THEN -1 ELSE 0)
    ELSE IF e.fn[k] = "sigmoid" THEN 1
    ELSE Sgn(e, k - 1)

Gt0(e) == ~e.nan /\ Sgn(e, Len(e.fn)) > 0
Lt0(e) == ~e.nan /\ Sgn(e, Len(e.fn)) < 0
Le0(e) == ~e.nan /\ Sgn(e, Len(e.fn)) <= 0

B2I(b) == IF b THEN 1 ELSE 0

\* sign_kernel_*: target[i] = (mat[i] > 0.) - (mat[i] < 0)
sign_kernel(e) == F(WordRange * (B2I(Gt0(e)) - B2I(Lt0(e))))

\* sigmoid_kernel_*: mat[i] = 1. / (1. + __expf(-mat[i]))
sigmoid_kernel(e) == [e EXCEPT !.fn = Append(@, "sigmoid")]

\* tanh_kernel_*: mat[i] = tanhf(mat[i])
tanh_kernel(e) == [e EXCEPT !.fn = Append(@, "tanh")]

\* relu_kernel_*: if (mat[i] < 0.) mat[i] = 0.
relu_kernel(e) == IF Lt0(e) THEN Zero ELSE e

\* df_relu_kernel_*: if (mat[i] <= 0.) target[i] = 0.; else target[i] = 1.
df_relu_kernel(e) == IF Le0(e) THEN Zero ELSE One

\* a variant that copies every element
nan_to_zeros_kernel_mut(e) == e

\* nan_to_zeros_kernel: target[i] = isnan(mat[i]) ? 0. : mat[i]
nan_to_zeros_kernel(e) == IF e.nan THEN Zero ELSE e

\* the elementwise operation a kernel performs on one element
Operation(name, e) ==
    CASE name = "sign" -> sign_kernel(e)
      [] name = "sigmoid" -> sigmoid_kernel(e)
      [] name = "tanh" -> tanh_kernel(e)
      [] name = "relu" -> relu_kernel(e)
      [] name = "df_relu" -> df_relu_kernel(e)
      [] name = "nan_to_zeros" -> nan_to_zeros_kernel(e)

\* an ElementwiseKernel call: the operation applied at every index
Elementwise(name, data) == [i \in DOMAIN data |-> Operation(name, data[i])]

\* a variant that sends everything but float64 to the float kernel
dispatch_mut(name, dtype) ==
    IF dtype = "float64" THEN name \o "_kernel_double"
    ELSE name \o "_kernel_float"

\* the dtype dispatch shared by sign, sigmoid, tanh, relu and df_relu:
\* the kernel launched for a dtype, "none" when ValueError is raised
dispatch(name, dtype) ==
    IF dtype = "float32" THEN name \o "_kernel_float"
    ELSE IF dtype = "float64" THEN name \o "_kernel_double"
    ELSE "none"

Depth(data) == IF \E i \in DOMAIN data : Len(data[i].fn) >= MaxCompose
               THEN MaxCompose ELSE 0

\* the common shape of the in-place functions sigmoid, tanh and relu
InPlace(name) ==
    LET k == dispatch(name, x.dtype)
    IN  /\ k_op' = name
        /\ x_before' = x.data
        /\ kernel' = k
        /\ ret' = "None"
        /\ IF k = "none"
           THEN /\ k_raised' = "ValueError"
                /\ UNCHANGED x
           ELSE /\ k_raised' = "none"
                /\ x' = [x EXCEPT !.data = Elementwise(name, @)]
        /\ fresh' = NoArray
        /\ buf' = Target

\* the common shape of sign and df_relu, which allocate their result first
IntoFresh(name) ==
    LET k == dispatch(name, x.dtype)
        t == Empty(x.dtype, Len(x.data))
    IN  /\ k_op' = name
        /\ x_before' = x.data
        /\ kernel' = k
        /\ IF k = "none"
           THEN /\ k_raised' = "ValueError"
                /\ fresh' = t
                /\ ret' = "None"
           ELSE /\ k_raised' = "none"
                /\ fresh' = [t EXCEPT !.data = Elementwise(name, x.data)]
                /\ ret' = "fresh"
        /\ buf' = Target
        /\ UNCHANGED x

sign == IntoFresh("sign") /\ UNCHANGED <<monVars, simpleVars, callVars>>

sigmoid ==
    /\ Depth(x.data) < MaxCompose
    /\ InPlace("sigmoid")
    /\ UNCHANGED <<monVars, simpleVars, callVars>>

tanh ==
    /\ Depth(x.data) < MaxCompose
    /\ InPlace("tanh")
    /\ UNCHANGED <<monVars, simpleVars, callVars>>

relu == InPlace("relu") /\ UNCHANGED <<monVars, simpleVars, callVars>>

df_relu == IntoFresh("df_relu") /\ UNCHANGED <<monVars, simpleVars, callVars>>

\* md5_code: the four words a, b, c, d the generator derives from the element
\* index i and the seed (here: base-WordRange digits of the seed, digit
\* (i + k - 1) mod MaxN for the k-th word)
md5_code(i, seed) ==
    [k \in 1..4 |-> (seed \div (WordRange ^ ((i + k - 1) % MaxN))) % WordRange]

\* dest[j] = w * POW_2_M32, guarded by j < n
StoreWord(dest, j, n, w) == IF j < n THEN [dest EXCEPT ![j + 1] = F(w)] ELSE dest

\* a variant that thresholds dest but never clears mat
dropout_body_mut(st, i, n, seed) ==
    LET w == md5_code(i, seed)
        d1 == StoreWord(st.dest, i, n, w[1])
        d2 == StoreWord(d1, i + NumThreads, n, w[2])
        d3 == StoreWord(d2, i + 2 * NumThreads, n, w[3])
        d4 == StoreWord(d3, i + 3 * NumThreads, n, w[4])
    IN  IF 2 * d4[i + 1].q <= WordRange
        THEN [mat |-> st.mat, dest |-> [d4 EXCEPT ![i + 1] = Zero]]
        ELSE [mat |-> st.mat, dest |-> [d4 EXCEPT ![i + 1] = One]]

\* one pass of the kernel body for element index i (lines 121-135);
\* st = [mat, dest]
dropout_body(st, i, n, seed) ==
    LET w == md5_code(i, seed)
        d1 == StoreWord(st.dest, i, n, w[1])
        d2 == StoreWord(d1, i + NumThreads, n, w[2])
        d3 == StoreWord(d2, i + 2 * NumThreads, n, w[3])
        d4 == StoreWord(d3, i + 3 * NumThreads, n, w[4])
    IN  IF 2 * d4[i + 1].q <= WordRange      \* dest[i] <= .5
        THEN [mat |-> [st.mat EXCEPT ![i + 1] = Zero],
              dest |-> [d4 EXCEPT ![i + 1] = Zero]]
        ELSE [mat |-> st.mat, dest |-> [d4 EXCEPT ![i + 1] = One]]

RECURSIVE dropout_thread(_, _, _, _)
\* for (i = start; i < n; i += total_threads) body
dropout_thread(st, i, n, seed) ==
    IF i >= n THEN st
    ELSE dropout_thread(dropout_body(st, i, n, seed), i + NumThreads, n, seed)

RECURSIVE dropout_grid(_, _, _, _)
\* the threads 0..NumThreads-1 touch disjoint elements; run them in turn
dropout_grid(st, t, n, seed) ==
    IF t >= NumThreads THEN st
    ELSE dropout_grid(dropout_thread(st, t, n, seed), t + 1, n, seed)

sample_dropout_mask_kernel(mat, dest, seed) ==
    dropout_grid([mat |-> mat, dest |-> dest], 0, Len(dest), seed)

\* sample_dropout_mask(x); the kernel is declared for float *mat
sample_dropout_mask ==
    /\ x.dtype = "float32"
    /\ \E seed \in 0..MaxSeed :
         LET result == Empty("float32", Len(x.data))
             out == sample_dropout_mask_kernel(x.data, result.data, seed)
         IN  /\ x' = [x EXCEPT !.data = out.mat]
             /\ fresh' = [result EXCEPT !.data = out.dest]
    /\ ret' = "fresh"
    /\ kernel' = "sample_dropout_mask"
    /\ k_op' = "sample_dropout_mask"
    /\ k_raised' = "none"
    /\ x_before' = x.data
    /\ buf' = Target
    /\ UNCHANGED <<monVars, simpleVars, callVars>>

\* nan_to_zeros(x, target) for target in None, x itself, or the array buf;
\* the kernel is declared for float *mat, float *target
nan_to_zeros(target) ==
    /\ x.dtype = "float32"
    /\ LET out == Elementwise("nan_to_zeros", x.data)
       IN  CASE target = "None" ->
                  /\ fresh' = [Empty(x.dtype, Len(x.data)) EXCEPT !.data = out]
                  /\ ret' = "fresh"
                  /\ buf' = Target
                  /\ UNCHANGED x
             [] target = "x" ->
                  /\ x' = [x EXCEPT !.data = out]
                  /\ ret' = "x"
                  /\ fresh' = NoArray
                  /\ buf' = Target
             [] target = "buf" ->
                  /\ buf' = [Target EXCEPT !.data = out]
                  /\ ret' = "buf"
                  /\ fresh' = NoArray
                  /\ UNCHANGED x
    /\ kernel' = "nan_to_zeros_kernel"
    /\ k_op' = "nan_to_zeros_" \o target
    /\ k_raised' = "none"
    /\ x_before' = x.data
    /\ UNCHANGED <<monVars, simpleVars, callVars>>

NanToZeros == \E target \in {"None", "x", "buf"} : nan_to_zeros(target)

\* the array a reference denotes
Deref(r) == IF r = "x" THEN x ELSE IF r = "buf" THEN buf ELSE fresh

Arrays(n) == [1..n -> Values]

KernelIdle ==
    /\ x = [dtype |-> "float32", data |-> <<>>]
    /\ buf = [dtype |-> "float32", data |-> <<>>]
    /\ fresh = NoArray
    /\ ret = "None"
    /\ kernel = "none"
    /\ k_raised = "none"
    /\ k_op = "none"
    /\ x_before = <<>>

MonIdle ==
    /\ MonInit
    /\ sys_stdout = "__std__"

\* any array of any dtype may be handed to the elementwise functions;
\* integer arrays hold no NaN
KernelInit ==
    /\ MonIdle
    /\ \E n \in 0..MaxN, dt \in Dtypes, d \in Arrays(MaxN) :
         /\ dt = "int32" => \A i \in 1..n : ~d[i].nan
         /\ x = [dtype |-> dt, data |-> SubSeq(d, 1, n)]
         /\ buf = Empty("float32", n)
    /\ fresh = NoArray
    /\ ret = "None"
    /\ kernel = "none"
    /\ k_raised = "none"
    /\ k_op = "none"
    /\ x_before = <<>>

KernelNext ==
    \/ sign
    \/ sigmoid
    \/ tanh
    \/ relu
    \/ df_relu
    \/ sample_dropout_mask
    \/ NanToZeros

KernelSpec == KernelInit /\ [][KernelNext]_vars

Init == MonInit /\ KernelIdle

Next ==
    \/ Construct
    \/ StartTraining
    \/ Report
    \/ FinishTraining

Spec == Init /\ [][Next]_vars

\* ------------------------------------------------------------------------
\* Properties
\* ------------------------------------------------------------------------
Last(seq) == seq[Len(seq)]
IsPrefix(a, b) == Len(a) <= Len(b) /\ SubSeq(b, 1, Len(a)) = a

CallEpoch(c) == c[1]
CallTrain(c) == c[2]
CallValidation(c) == c[3]
CallTime(c) == c[4]

\* the periodic checkpoints in save_path
PeriodicFiles == files \ {FinalFile(experiment_name)}

\* C1: with save_interval >= 1, after any sequence of report calls the
\* periodic checkpoint files written are exactly the files
\* model_<name>_epoch<epoch>.pkl of the reported epochs that are multiples of
\* save_interval.
C1_CheckpointsAreMultiples ==
    (constructed /\ save_interval >= 1) =>
        PeriodicFiles =
            {EpochFile(experiment_name, CallEpoch(calls[i])) :
                i \in {j \in DOMAIN calls :
                          CallEpoch(calls[j]) % save_interval = 0}}

\* C6: train_error holds one entry (epoch, train_error) per report call in
\* call order, validation_error one entry per call whose validation_error
\* was not None, in call order; so validation_error is never longer than
\* train_error; and a step never removes or rewrites an earlier entry.
WithValidation == SelectSeq(calls, LAMBDA c : ~IsNone(CallValidation(c)))

C6_Entries ==
    /\ Len(train_error) = Len(calls)
    /\ Len(s_train_error) = Len(calls)
    /\ \A i \in DOMAIN calls :
         /\ train_error[i] = PyTuple(CallEpoch(calls[i]), CallTrain(calls[i]))
         /\ s_train_error[i] = PyTuple(CallEpoch(calls[i]), CallTrain(calls[i]))
    /\ Len(validation_error) = Len(WithValidation)
    /\ Len(s_validation_error) = Len(WithValidation)
    /\ \A i \in DOMAIN WithValidation :
         /\ validation_error[i] = CallValidation(WithValidation[i])
         /\ s_validation_error[i] = PyTuple(CallEpoch(WithValidation[i]),
                                             CallValidation(WithValidation[i]))
    /\ Len(validation_error) <= Len(train_error)
    /\ Len(s_validation_error) <= Len(s_train_error)

C6_Kept ==
    /\ IsPrefix(train_error, train_error')
    /\ IsPrefix(validation_error, validation_error')
    /\ IsPrefix(s_train_error, s_train_error')
    /\ IsPrefix(s_validation_error, s_validation_error')

C6_ErrorLists == [](constructed => C6_Entries) /\ [][C6_Kept]_vars

C6_Witness ==
    /\ Len(calls) = 2
    /\ Len(validation_error) = 1
    /\ Len(s_validation_error) = 1
    /\ IsNone(CallValidation(calls[1]))

\* C10: fed the same start_training and report calls, the two monitors hold
\* equal train_error, validation_error and avg_epoch_t after every call.
C10_SameBookkeeping ==
    constructed =>
        /\ train_error = s_train_error
        /\ validation_error = s_validation_error
        /\ avg_epoch_t = s_avg_epoch_t

\* C9: with the default save_interval (0), report(epoch, ...) for any
\* epoch >= 0 does not raise: the error is recorded and printed and no
\* periodic checkpoint is written.
C9_DefaultIntervalReports ==
    (constructed /\ save_interval = 0 /\ lastOp = "report") =>
        /\ raised = "none"
        /\ Last(train_error) =
               PyTuple(CallEpoch(Last(calls)), CallTrain(Last(calls)))
        /\ printed = Len(calls)
        /\ PeriodicFiles = {}

\* C8: finish_training, called after start_training, returns normally and
\* writes model_<name>_final.pkl whatever report calls were made in between.
C8_FinishWritesFinal ==
    (lastOp = "finish_training" /\ start_time) =>
        /\ raised = "none"
        /\ FinalFile(experiment_name) \in files

\* C7: after report calls for the epochs 1, 2, ..., n in that order, each
\* with an epoch_t, avg_epoch_t is the arithmetic mean of the n epoch_t
\* values; avg_epoch_t is None as long as no call passed an epoch_t; and a
\* report call with epoch_t = None leaves avg_epoch_t unchanged.
RECURSIVE SumTimes(_)
\* the sum of the epoch_t of the first k calls, as a float
SumTimes(k) ==
    IF k = 0 THEN PyFloat(0, 1)
    ELSE LET r == SumTimes(k - 1)
             t == CallTime(calls[k])
         IN  PyFloat(r[2] * t[3] + t[2] * r[3], r[3] * t[3])

MeanTime ==
    LET sum == SumTimes(Len(calls))
    IN  PyFloat(sum[2], sum[3] * Len(calls))

EpochsInOrder ==
    /\ Len(calls) >= 1
    /\ \A i \in DOMAIN calls :
         CallEpoch(calls[i]) = i /\ ~IsNone(CallTime(calls[i]))

NoTimeYet == \A i \in DOMAIN calls : IsNone(CallTime(calls[i]))

C7_Mean ==
    /\ EpochsInOrder => (avg_epoch_t = MeanTime /\ s_avg_epoch_t = MeanTime)
    /\ NoTimeYet => (IsNone(avg_epoch_t) /\ IsNone(s_avg_epoch_t))

C7_NoTimeKeeps ==
    (Len(calls') = Len(calls) + 1 /\ IsNone(CallTime(Last(calls')))) =>
        (avg_epoch_t' = avg_epoch_t /\ s_avg_epoch_t' = s_avg_epoch_t)

C7_AverageEpochTime == [](constructed => C7_Mean) /\ [][C7_NoTimeKeeps]_vars

C7_Witness ==
    /\ EpochsInOrder
    /\ Len(calls) = 2
    /\ CallTime(calls[1]) # CallTime(calls[2])
    /\ avg_epoch_t = PyFloat(3, 2)

\* C4: with output_to_log, sys.stdout and sys.stderr are the open log file
\* from construction until finish_training returns; when finish_training
\* has returned normally the log is closed and both are the interpreter's
\* own streams; without output_to_log no monitor call changes either.
C4_Redirected ==
    (constructed /\ output_to_log /\ ~finished) =>
        (sys_stdout = "log" /\ sys_stderr = "log" /\ log = "open")

C4_Restored ==
    (output_to_log /\ lastOp = "finish_training" /\ raised = "none") =>
        (sys_stdout = "__std__" /\ sys_stderr = "__std__" /\ log = "closed")

C4_Untouched ==
    (constructed' /\ ~output_to_log') =>
        (sys_stdout' = sys_stdout /\ sys_stderr' = sys_stderr)

C4_LogStreams == [](C4_Redirected /\ C4_Restored) /\ [][C4_Untouched]_vars

C4_Witness ==
    /\ output_to_log
    /\ lastOp = "finish_training"
    /\ raised = "none"
    /\ log = "closed"
    /\ Len(calls) >= 1

Dispatching == {"sign", "sigmoid", "tanh", "relu", "df_relu"}

C3_DtypeDispatch ==
    k_op \in Dispatching =>
        IF x.dtype = "float32"
        THEN kernel = k_op \o "_kernel_float" /\ k_raised = "none"
        ELSE IF x.dtype = "float64"
        THEN kernel = k_op \o "_kernel_double" /\ k_raised = "none"
        ELSE /\ k_raised = "ValueError"
             /\ kernel = "none"
             /\ ret = "None"
             /\ x.data = x_before

C3_Witness ==
    /\ k_op = "relu"
    /\ x.dtype = "float16"
    /\ k_raised = "ValueError"
    /\ \E i \in DOMAIN x.data : Lt0(x.data[i])

\* C5: nan_to_zeros(x, target) returns an array holding 0 where x is NaN and
\* the value of x elsewhere, so without NaN; with target None the array is a
\* new one and x is unchanged, otherwise it is the target passed.
NanToZerosOps == {"nan_to_zeros_None", "nan_to_zeros_x", "nan_to_zeros_buf"}

====
